---- MODULE Spec2Model ----
(***************************************************************************)
(* Verification model of the observability package of lacion/bunanza:      *)
(* the Hono request-observability middleware (middleware/hono/index.ts),   *)
(* its header/duration/query helpers (middleware/hono/utils.ts) and the    *)
(* middleware defaults (middleware/hono/config.ts); the context helpers    *)
(* (utils/context.ts), the error utilities (utils/errors.ts), the default  *)
(* level (constants.ts), the logger defaults (config/defaults.ts) and the  *)
(* logger factory with its process-wide handlers (logger.ts).              *)
(*                                                                         *)
(* Modelling conventions                                                   *)
(*  - A JavaScript string that the code transforms character by character  *)
(*    (a header name, through toLowerCase) is a tuple of character codes.  *)
(*    Strings the code only passes around are TLA+ strings.                *)
(*  - A JavaScript object is the sequence of its <<key, value>> entries in *)
(*    insertion order, with pairwise distinct keys.                        *)
(*  - An option of the options object is a tagged record: tag "absent"     *)
(*    (key not present), "undefined" (key present, value undefined) or the *)
(*    tag of its value.                                                    *)
(*  - The response status of the request context is a number; 0 stands for *)
(*    "unset" (falsy in `!c.res.status`).  The request context belongs to  *)
(*    the HTTP framework, not to this package: it is taken as the single   *)
(*    mutable response status of the specification, so that c.status(n)    *)
(*    is what c.res.status reads afterwards (ContextStatus).               *)
(*  - The logging backend is an opaque sink: an entry is one call of       *)
(*    info/warn/error on the per-request logger; the calls never raise.    *)
(*    Its child(bindings) yields a new handle with the bindings merged     *)
(*    over the receiver's, as the specification describes the backend.     *)
(***************************************************************************)
EXTENDS Integers, Sequences, FiniteSets, TLC

VARIABLES
    config,        \* merged configuration captured by the middleware closure
    request,       \* c.req: method, url, path, headers
    resStatus,     \* c.res.status (0 = unset)
    pc,            \* position of the middleware invocation
    requestLogger, \* the per-request child logger
    startTime,     \* process.hrtime.bigint() read at the start (ns)
    log,           \* entries emitted so far, in order
    ctxLogger,     \* c.get('logger')
    nextCalls,     \* how many times next() has been invoked
    nextOutcome,   \* how next() settled, with the status and clock at that moment
    thrown,        \* error the middleware invocation failed with
    hIn,           \* getHeaders: argument `headers`
    hOrig,         \* getHeaders: the value of `headers` before the call
    dIn,           \* getHeaders: argument `redactHeaders`
    hOut,          \* getHeaders: returned mapping
    hPc,           \* getHeaders: "input" before the call, "done" after
    loggers,       \* context composition: the logger handles, the root first
    derivations,   \* context composition: the call that made each handle
    emitted,       \* context composition: entries logged, in order
    eIn,           \* error utilities: the argument value
    eSerialized,   \* error utilities: what errorSerializer returned
    eIsError,      \* error utilities: what isError returned
    ePc,           \* error utilities: "input", "serialized" or "classified"
    envLogLevel,   \* process.env.LOG_LEVEL
    DEFAULT_LEVEL, \* constants.ts DEFAULT_LEVEL, once the module is loaded
    defaultLogger, \* logger.ts defaultLogger, once the module is loaded
    procLog,       \* entries logged on defaultLogger, in order
    faults,        \* process-wide failure signals delivered so far
    exit,          \* process exit: "running", or "exited" with its status
    mwOptions,     \* options the last middleware was constructed with
    mwLogger,      \* logger the last middleware was constructed with
    reqs,          \* concurrent requests: the invocations started, in order
    sharedLog,     \* concurrent requests: entries emitted, each with its request
    sharedLogger,  \* concurrent requests: the logger captured by the closure
    constructed    \* concurrent requests: the closure as it was constructed

mwVars == <<config, request, resStatus, pc, requestLogger, startTime, log,
            ctxLogger, nextCalls, nextOutcome, thrown>>
fnVars == <<hIn, hOrig, dIn, hOut, hPc>>
ctxVars == <<loggers, derivations, emitted>>
errVars == <<eIn, eSerialized, eIsError, ePc>>
modVars == <<envLogLevel, DEFAULT_LEVEL, defaultLogger, procLog, faults, exit,
             mwOptions, mwLogger>>
concVars == <<reqs, sharedLog, sharedLogger, constructed>>
libVars == <<ctxVars, errVars, modVars, concVars>>
vars == <<config, request, resStatus, pc, requestLogger, startTime, log,
          ctxLogger, nextCalls, nextOutcome, thrown, hIn, hOrig, dIn, hOut, hPc,
          loggers, derivations, emitted, eIn, eSerialized, eIsError, ePc,
          envLogLevel, DEFAULT_LEVEL, defaultLogger, procLog, faults, exit,
          mwOptions, mwLogger, reqs, sharedLog, sharedLogger, constructed>>

(***************************************************************************)
(* Bounds                                                                  *)
(***************************************************************************)
MaxHeaders == 2
MaxDeny == 2

(***************************************************************************)
(* JavaScript objects as ordered entry lists                               *)
(***************************************************************************)
ObjHas(o, k) == \E i \in DOMAIN o : o[i][1] = k

ObjGet(o, k) == o[CHOOSE i \in DOMAIN o : o[i][1] = k][2]

ObjKeys(o) == {o[i][1] : i \in DOMAIN o}

\* o[k] = v : overwrite in place when the key exists, else add at the end
ObjSet(o, k, v) ==
    IF ObjHas(o, k)
    THEN [i \in DOMAIN o |-> IF o[i][1] = k THEN <<k, v>> ELSE o[i]]
    ELSE Append(o, <<k, v>>)

RECURSIVE ObjAssign(_, _)
\* Object.assign(target, source) / Object.fromEntries(entries) onto target
ObjAssign(target, entries) ==
    IF entries = <<>> THEN target
    ELSE ObjAssign(ObjSet(target, Head(entries)[1], Head(entries)[2]), Tail(entries))

ObjFromEntries(entries) == ObjAssign(<<>>, entries)

ArrayIncludes(arr, x) == \E i \in DOMAIN arr : arr[i] = x

(***************************************************************************)
(* String.prototype.toLowerCase on character codes                         *)
(***************************************************************************)
ToLowerChar(ch) == IF ch \in 65..90 THEN ch + 32 ELSE ch

toLowerCase(s) == [i \in DOMAIN s |-> ToLowerChar(s[i])]

(***************************************************************************)
(* utils.ts: getHeaders                                                    *)
(***************************************************************************)
REDACTED == "[REDACTED]"

\* mutant: the deny-list is matched against the key as given
SanitizeEntry_RawKeyMatch(sanitizedHeaders, key, value, redactHeaders) ==
    LET lowerKey == toLowerCase(key) IN
    IF ArrayIncludes(redactHeaders, key)
    THEN ObjSet(sanitizedHeaders, lowerKey, REDACTED)
    ELSE ObjSet(sanitizedHeaders, lowerKey, value)

\* one iteration of the for-of loop body
SanitizeEntry(sanitizedHeaders, key, value, redactHeaders) ==
    LET lowerKey == toLowerCase(key) IN
    IF ArrayIncludes(redactHeaders, lowerKey)
    THEN ObjSet(sanitizedHeaders, lowerKey, REDACTED)
    ELSE ObjSet(sanitizedHeaders, lowerKey, value)

RECURSIVE SanitizeLoop(_, _, _)
SanitizeLoop(sanitizedHeaders, entries, redactHeaders) ==
    IF entries = <<>> THEN sanitizedHeaders
    ELSE SanitizeLoop(
            SanitizeEntry(sanitizedHeaders, Head(entries)[1], Head(entries)[2], redactHeaders),
            Tail(entries), redactHeaders)

getHeaders(headers, redactHeaders) == SanitizeLoop(<<>>, headers, redactHeaders)

(***************************************************************************)
(* Header names (character codes)                                          *)
(***************************************************************************)
\* "authorization"
hdrAuthorization == <<97, 117, 116, 104, 111, 114, 105, 122, 97, 116, 105, 111, 110>>
\* "cookie"
hdrCookie == <<99, 111, 111, 107, 105, 101>>
\* "set-cookie"
hdrSetCookie == <<115, 101, 116, 45, 99, 111, 111, 107, 105, 101>>
\* "x-api-key"
hdrXApiKey == <<120, 45, 97, 112, 105, 45, 107, 101, 121>>
\* "x-auth-token"
hdrXAuthToken == <<120, 45, 97, 117, 116, 104, 45, 116, 111, 107, 101, 110>>
\* "Authorization"
hdrAuthorizationCap == <<65, 117, 116, 104, 111, 114, 105, 122, 97, 116, 105, 111, 110>>
\* "x-test"
hdrXTest == <<120, 45, 116, 101, 115, 116>>
\* "X-Test"
hdrXTestCap == <<88, 45, 84, 101, 115, 116>>

(***************************************************************************)
(* Options and defaults (types.ts HonoLoggerOptions, config.ts)            *)
(***************************************************************************)
Absent == "absent"
Undefined == "undefined"

OptBool(b) == [tag |-> "bool", b |-> b, a |-> <<>>]
OptArray(a) == [tag |-> "array", b |-> FALSE, a |-> a]
OptNumber(n) == [tag |-> "number", n |-> n]
OptFn(f) == [tag |-> "fn", f |-> f]

NoBoolOrArray(tag) == [tag |-> tag, b |-> FALSE, a |-> <<>>]
NoNumber(tag) == [tag |-> tag, n |-> 0]
NoFn(tag) == [tag |-> tag, f |-> "none"]

OptLevel(name) == [tag |-> "string", s |-> name]
NoLevel(tag) == [tag |-> tag, s |-> ""]

\* LoggerOptions `{}` (the keys with plain values: level, timestamp,
\* messageKey, errorKey)
loggerEmptyOptions ==
    [level |-> NoLevel(Absent),
     timestamp |-> NoBoolOrArray(Absent),
     messageKey |-> NoLevel(Absent),
     errorKey |-> NoLevel(Absent)]

\* no logger handle
NoHandle == [name |-> "none", bindings |-> <<>>, mergedOptions |-> loggerEmptyOptions]

OptLogger(handle) == [tag |-> "logger", handle |-> handle]
NoLogger(tag) == [tag |-> tag, handle |-> NoHandle]

\* the options object `{}`
emptyOptions ==
    [level |-> NoLevel(Absent),
     logger |-> NoLogger(Absent),
     includeHeaders |-> NoBoolOrArray(Absent),
     redactHeaders |-> NoBoolOrArray(Absent),
     includeQueryParams |-> NoBoolOrArray(Absent),
     slowRequestThreshold |-> NoNumber(Absent),
     getUserContext |-> NoFn(Absent),
     formatRequest |-> NoFn(Absent),
     formatResponse |-> NoFn(Absent),
     formatError |-> NoFn(Absent)]

DefaultSlowRequestThreshold == 1000

defaultOptions ==
    [emptyOptions EXCEPT
        !.includeHeaders = OptBool(FALSE),
        !.includeQueryParams = OptBool(FALSE),
        !.slowRequestThreshold = OptNumber(DefaultSlowRequestThreshold),
        !.redactHeaders = OptArray(<<hdrAuthorization, hdrCookie, hdrSetCookie,
                                     hdrXApiKey, hdrXAuthToken>>)]

\* { ...defaults, ...options }: a key present in options wins, also when its
\* value is undefined
SpreadMerge(defaults, options) ==
    [k \in DOMAIN defaults |->
        IF options[k].tag # Absent THEN options[k] ELSE defaults[k]]

\* x is null or undefined (a key that is absent reads as undefined)
Nullish(x) == x.tag \in {Absent, Undefined}

\* JavaScript truthiness of an option value: arrays and functions are truthy
Truthy(x) ==
    \/ x.tag = "bool" /\ x.b
    \/ x.tag = "array"
    \/ x.tag = "fn"

(***************************************************************************)
(* utils.ts: formatDuration, getQueryParams                                *)
(***************************************************************************)
NsPerMs == 1000000

\* Number(endTime - startTime) / 1_000_000: milliseconds, as whole part and
\* remaining nanoseconds
formatDuration(start, end) ==
    [whole |-> (end - start) \div NsPerMs, frac |-> (end - start) % NsPerMs]

\* duration > threshold, for a whole number of milliseconds threshold
DurationExceeds(duration, threshold) ==
    \/ duration.whole > threshold
    \/ duration.whole = threshold /\ duration.frac > 0

\* mutant: a repeated key keeps its first value
getQueryParams_FirstWins(url) ==
    ObjAssign(<<>>, [i \in DOMAIN url.search |-> url.search[Len(url.search) + 1 - i]])

\* params[key] = value over searchParams.entries()
getQueryParams(url) == ObjAssign(<<>>, url.search)

(***************************************************************************)
(* Loggers (context.ts withRequestContext, createContextLogger)            *)
(***************************************************************************)
baseLogger == [name |-> "logger", bindings |-> <<>>]

\* mutant: on a collision the parent's binding is kept
child_ParentWins(logger, bindings) ==
    [name |-> logger.name, bindings |-> ObjAssign(bindings, logger.bindings)]

\* the logging backend's child(bindings): a new handle whose bindings are the
\* receiver's with `bindings` merged over them
child(logger, bindings) ==
    [name |-> logger.name, bindings |-> ObjAssign(logger.bindings, bindings)]

createContextLogger(logger, context) == child(logger, context)

\* an optional string argument
ArgString(str) == [tag |-> "string", s |-> str]
NoString(tag) == [tag |-> tag, s |-> ""]

\* requestId || generateRequestId(), generated being what generateRequestId()
\* returns when it is called
withRequestContext(logger, requestId, generated) ==
    LET generatedRequestId == IF requestId.tag = "string" /\ requestId.s # ""
                              THEN requestId.s ELSE generated
    IN  createContextLogger(logger, <<<<"requestId", generatedRequestId>>>>)

withUserContext(logger, userId) ==
    createContextLogger(logger, <<<<"userId", userId>>>>)

withTraceContext(logger, traceId) ==
    createContextLogger(logger, <<<<"traceId", traceId>>>>)

\* logger.ts: extendedLogger.withContext
withContext(this, context) == createContextLogger(this, context)

Entry(logger, level, payload, msg) ==
    [level |-> level, msg |-> msg, payload |-> payload, logger |-> logger]

(***************************************************************************)
(* index.ts: observabilityMiddleware, request phase (lines 14-68)          *)
(***************************************************************************)
IncomingRequest == "Incoming request"
SlowRequestDetected == "Slow request detected"
RequestCompleted == "Request completed"
RequestFailed == "Request failed"

\* Object.entries(c.req.header()).map(([key, value]) => [key.toLowerCase(), value])
LowerCaseEntries(headers) ==
    [i \in DOMAIN headers |-> <<toLowerCase(headers[i][1]), headers[i][2]>>]

\* Object.entries(headers).filter(([key]) => allowedHeaders.includes(key))
FilterAllowed(headers, allowedHeaders) ==
    ObjFromEntries(SelectSeq(headers, LAMBDA e : ArrayIncludes(allowedHeaders, e[1])))

\* mutant: the allow-list is applied to the headers before redaction only
HeaderContext_NoRedaction(cfg, req) ==
    LET headers == ObjFromEntries(LowerCaseEntries(req.headers))
    IN  IF cfg.includeHeaders.tag = "array"
        THEN FilterAllowed(headers, cfg.includeHeaders.a)
        ELSE headers

\* the value assigned to logContext.headers
HeaderContext(cfg, req) ==
    LET headers == getHeaders(ObjFromEntries(LowerCaseEntries(req.headers)),
                              IF Nullish(cfg.redactHeaders) THEN <<>>
                              ELSE cfg.redactHeaders.a)
    IN  IF cfg.includeHeaders.tag = "array"
        THEN FilterAllowed(headers, cfg.includeHeaders.a)
        ELSE headers

\* logContext before the user context is merged in
BuildLogContext(cfg, req) ==
    LET base == <<<<"method", req.method>>, <<"url", req.url>>, <<"path", req.path>>>>
        withHeaders == IF Truthy(cfg.includeHeaders)
                       THEN ObjSet(base, "headers", HeaderContext(cfg, req))
                       ELSE base
    IN  IF Truthy(cfg.includeQueryParams)
        THEN ObjSet(withHeaders, "query", getQueryParams(req.url))
        ELSE withHeaders

\* what the configured getUserContext(c) returns
UserContextResult(f, req) ==
    IF f = "rawHeaders" THEN <<<<"headers", req.headers>>>>
    ELSE <<<<"userId", "u1">>>>

\* what the configured formatRequest / formatResponse / formatError return
CustomRequestPayload == <<<<"custom", "request">>>>
CustomResponsePayload == <<<<"custom", "response">>>>
CustomErrorPayload == <<<<"custom", "error">>>>

Throws(opt) == opt.tag = "fn" /\ opt.f = "throws"

\* mutant: the formatter's result is merged over the computed payload
RequestContext_MergesFormatter(cfg, req) ==
    LET logContext == BuildLogContext(cfg, req) IN
    IF Throws(cfg.getUserContext)
    THEN [threw |-> TRUE, err |-> "getUserContextError", payload |-> <<>>]
    ELSE IF Throws(cfg.formatRequest)
    THEN [threw |-> TRUE, err |-> "formatRequestError", payload |-> <<>>]
    ELSE [threw |-> FALSE, err |-> "none",
          payload |-> IF Truthy(cfg.formatRequest)
                      THEN ObjAssign(logContext, CustomRequestPayload)
                      ELSE IF Truthy(cfg.getUserContext)
                      THEN ObjAssign(logContext, UserContextResult(cfg.getUserContext.f, req))
                      ELSE logContext]

\* mutant: the base logger is stored in the context
ContextLogger_Base(logger, reqLogger) == logger

\* c.set('logger', requestLogger): what c.get('logger') returns afterwards
ContextLogger(logger, reqLogger) == reqLogger

\* lines 55-62: the payload of the first entry, or the error a callback raised
RequestContext(cfg, req) ==
    LET logContext == BuildLogContext(cfg, req) IN
    IF Throws(cfg.getUserContext)
    THEN [threw |-> TRUE, err |-> "getUserContextError", payload |-> <<>>]
    ELSE IF Throws(cfg.formatRequest)
    THEN [threw |-> TRUE, err |-> "formatRequestError", payload |-> <<>>]
    ELSE [threw |-> FALSE, err |-> "none",
          payload |-> IF Truthy(cfg.formatRequest) THEN CustomRequestPayload
                      ELSE IF Truthy(cfg.getUserContext)
                      THEN ObjAssign(logContext, UserContextResult(cfg.getUserContext.f, req))
                      ELSE logContext]

(***************************************************************************)
(* index.ts: observabilityMiddleware, after next() (lines 74-127)          *)
(***************************************************************************)
\* config.slowRequestThreshold ?? defaultOptions.slowRequestThreshold ?? 1000
FallbackThreshold == 1000

SlowThreshold(cfg) ==
    IF ~Nullish(cfg.slowRequestThreshold) THEN cfg.slowRequestThreshold.n
    ELSE IF ~Nullish(defaultOptions.slowRequestThreshold)
    THEN defaultOptions.slowRequestThreshold.n
    ELSE FallbackThreshold

\* c.status(code) of the request context, as c.res.status reads it afterwards
ContextStatus(current, code) == code

\* mutant: only an unset status is forced
ErrorStatus_UnsetOnly(status) ==
    IF status = 0 THEN ContextStatus(status, 500) ELSE status

\* if (!c.res.status || c.res.status < 400) c.status(500)
ErrorStatus(status) ==
    IF status = 0 \/ status < 400 THEN ContextStatus(status, 500) ELSE status

\* mutant: the error is logged by its message, not as the error itself
ErrorContext_ErrAsText(error, duration, status, req) ==
    <<<<"err", "Error">>, <<"duration", duration>>, <<"status", status>>,
      <<"method", req.method>>, <<"path", req.path>>>>

ErrorContext(error, duration, status, req) ==
    <<<<"err", error>>, <<"duration", duration>>, <<"status", status>>,
      <<"method", req.method>>, <<"path", req.path>>>>

ResponseContext(status, duration) ==
    <<<<"status", status>>, <<"duration", duration>>>>

\* the catch block: the status, log and raised error it leaves behind
CatchBlock(cfg, req, logger, error, logIn, status, start, end) ==
    LET duration == formatDuration(start, end)
        newStatus == ErrorStatus(status)
        errorContext == ErrorContext(error, duration, newStatus, req)
    IN  IF Throws(cfg.formatError)
        THEN [status |-> newStatus, log |-> logIn, thrown |-> "formatErrorError"]
        ELSE [status |-> newStatus,
              log |-> Append(logIn,
                        Entry(logger, "error",
                              IF Truthy(cfg.formatError) THEN CustomErrorPayload
                              ELSE errorContext,
                              RequestFailed)),
              thrown |-> error]

\* lines 75-84: the log after the slow-request check
AfterSlowCheck(cfg, logger, logIn, duration) ==
    IF DurationExceeds(duration, SlowThreshold(cfg))
    THEN Append(logIn,
            Entry(logger, "warn",
                  <<<<"duration", duration>>, <<"threshold", SlowThreshold(cfg)>>>>,
                  SlowRequestDetected))
    ELSE logIn

(***************************************************************************)
(* Inputs                                                                  *)
(***************************************************************************)
\* options that shape the first entry
RequestPhaseOptions ==
    { [emptyOptions EXCEPT !.includeHeaders = ih, !.redactHeaders = rh,
                           !.includeQueryParams = iq, !.getUserContext = uc,
                           !.formatRequest = fr] :
        ih \in {NoBoolOrArray(Absent), OptBool(TRUE), OptArray(<<>>),
                OptArray(<<hdrXTest>>), OptArray(<<hdrAuthorization, hdrXTest>>)},
        rh \in {NoBoolOrArray(Absent), NoBoolOrArray(Undefined),
                OptArray(<<hdrXTest>>), OptArray(<<hdrAuthorizationCap>>)},
        iq \in {NoBoolOrArray(Absent), OptBool(TRUE)},
        uc \in {NoFn(Absent), OptFn("userId"), OptFn("rawHeaders"), OptFn("throws")},
        fr \in {NoFn(Absent), OptFn("returns"), OptFn("throws")} }

\* options that shape the entries after next()
ResponsePhaseOptions ==
    { [emptyOptions EXCEPT !.slowRequestThreshold = th, !.formatResponse = fs,
                           !.formatError = fe] :
        th \in {NoNumber(Absent), NoNumber(Undefined), OptNumber(0), OptNumber(1)},
        fs \in {NoFn(Absent), NoFn(Undefined), OptFn("returns"), OptFn("throws")},
        fe \in {NoFn(Absent), OptFn("returns"), OptFn("throws")} }

\* options with every formatter set, with and without a user-context extractor
FormatterOptions ==
    { [emptyOptions EXCEPT !.includeHeaders = OptBool(TRUE),
                           !.includeQueryParams = OptBool(TRUE),
                           !.getUserContext = uc,
                           !.formatRequest = OptFn("returns"),
                           !.formatResponse = OptFn("returns"),
                           !.formatError = OptFn("returns")] :
        uc \in {NoFn(Absent), OptFn("userId")} }

OptionSets == RequestPhaseOptions \cup ResponsePhaseOptions \cup FormatterOptions

Requests ==
    { [method |-> "GET",
       url |-> [origin |-> "http://localhost", path |-> "/users",
                search |-> <<<<"x", "1">>, <<"y", "2">>, <<"x", "3">>>>],
       path |-> "/users",
       headers |-> <<<<hdrAuthorization, "Bearer x">>, <<hdrXTest, "value">>>>],
      [method |-> "POST",
       url |-> [origin |-> "http://localhost", path |-> "/error", search |-> <<>>],
       path |-> "/error",
       headers |-> <<<<hdrXTestCap, "upper">>, <<hdrCookie, "sid=1">>,
                     <<hdrXTest, "lower">>>>] }

\* results of generateRequestId()
RequestIds == {"req_1_a", "req_2_b"}

\* statuses a downstream handler sets
Statuses == {200, 399, 400, 404}

\* errors a downstream handler raises
Errors == {"E1", "E2"}

\* readings of process.hrtime.bigint(), nanoseconds
StartInstants == {0, 1}
Instants == {0, 1, NsPerMs, NsPerMs + 1,
             DefaultSlowRequestThreshold * NsPerMs,
             DefaultSlowRequestThreshold * NsPerMs + 1}

SeqsUpTo(S, n) == UNION {[1..k -> S] : k \in 0..n}

HeaderKeys == {<<65>>, <<97>>, <<98>>}
HeaderValues == {"v1", "v2"}

\* header mappings: entry lists with pairwise distinct keys
HeaderMappings ==
    {h \in SeqsUpTo(HeaderKeys \X HeaderValues, MaxHeaders) :
        \A i, j \in DOMAIN h : i # j => h[i][1] # h[j][1]}

DenyLists == SeqsUpTo(HeaderKeys, MaxDeny)

(***************************************************************************)
(* The middleware as a state machine                                       *)
(***************************************************************************)
NoOutcome == [kind |-> "pending", err |-> "none", status |-> 0, at |-> 0]

MwIdle ==
    /\ resStatus = 0
    /\ pc = "idle"
    /\ requestLogger = baseLogger
    /\ startTime = 0
    /\ log = <<>>
    /\ ctxLogger = [name |-> "unset", bindings |-> <<>>]
    /\ nextCalls = 0
    /\ nextOutcome = NoOutcome
    /\ thrown = "none"

FnIdle == hIn = <<>> /\ hOrig = <<>> /\ dIn = <<>> /\ hOut = <<>> /\ hPc = "unused"

\* no logger handle has been composed
CtxIdle == loggers = <<>> /\ derivations = <<>> /\ emitted = <<>>

\* the error utilities have not been called
ErrIdle == eIn = "none" /\ eSerialized = <<>> /\ eIsError = FALSE /\ ePc = "unused"

\* the process and the loading of logger.ts are not part of the run
ModIdle ==
    /\ envLogLevel = NoString(Absent)
    /\ DEFAULT_LEVEL = NoString(Undefined)
    /\ defaultLogger = NoHandle
    /\ procLog = <<>>
    /\ faults = <<>>
    /\ exit = [tag |-> "unused", code |-> 0]
    /\ mwOptions = emptyOptions
    /\ mwLogger = NoHandle

\* no request has been started on a shared middleware instance
ConcIdle ==
    /\ reqs = <<>>
    /\ sharedLog = <<>>
    /\ sharedLogger = baseLogger
    /\ constructed = [config |-> SpreadMerge(defaultOptions, emptyOptions),
                      logger |-> baseLogger]

\* observabilityMiddleware(options): the closure over the merged configuration
Init ==
    /\ \E options \in OptionSets : config = SpreadMerge(defaultOptions, options)
    /\ request \in Requests
    /\ MwIdle
    /\ FnIdle
    /\ CtxIdle
    /\ ErrIdle
    /\ ModIdle
    /\ ConcIdle

\* lines 14-72: from the call of the handler to the call of next()
Start ==
    /\ pc = "idle"
    /\ \E generated \in RequestIds, t0 \in StartInstants :
        LET reqLogger == withRequestContext(baseLogger, NoString(Absent), generated)
            rc == RequestContext(config, request)
        IN  /\ requestLogger' = reqLogger
            /\ startTime' = t0
            /\ IF rc.threw
               THEN /\ pc' = "threw"
                    /\ thrown' = rc.err
                    /\ UNCHANGED <<log, ctxLogger, nextCalls>>
               ELSE /\ log' = Append(log, Entry(reqLogger, "info", rc.payload, IncomingRequest))
                    /\ ctxLogger' = ContextLogger(baseLogger, reqLogger)
                    /\ nextCalls' = nextCalls + 1
                    /\ pc' = "awaiting"
                    /\ UNCHANGED thrown
    /\ UNCHANGED <<config, request, resStatus, nextOutcome>>
    /\ UNCHANGED <<fnVars, libVars>>

\* the downstream handler sets the response status while the middleware waits
HandlerSetStatus ==
    /\ pc = "awaiting"
    /\ \E s \in Statuses : resStatus' = s
    /\ UNCHANGED <<config, request, pc, requestLogger, startTime, log, ctxLogger,
                   nextCalls, nextOutcome, thrown>>
    /\ UNCHANGED <<fnVars, libVars>>

\* lines 72-98 (and 100-126 when a step of the try block raises)
NextReturns ==
    /\ pc = "awaiting"
    /\ \E t1 \in Instants, t2 \in Instants :
        /\ startTime <= t1 /\ t1 <= t2
        /\ LET duration == formatDuration(startTime, t1)
               log1 == AfterSlowCheck(config, requestLogger, log, duration)
               caught == CatchBlock(config, request, requestLogger,
                                    "formatResponseError", log1, resStatus, startTime, t2)
           IN  IF Throws(config.formatResponse)
               THEN /\ resStatus' = caught.status
                    /\ log' = caught.log
                    /\ thrown' = caught.thrown
                    /\ pc' = "threw"
               ELSE /\ log' = Append(log1,
                                Entry(requestLogger, "info",
                                      IF Truthy(config.formatResponse)
                                      THEN CustomResponsePayload
                                      ELSE ResponseContext(resStatus, duration),
                                      RequestCompleted))
                    /\ pc' = "returned"
                    /\ UNCHANGED <<resStatus, thrown>>
        /\ nextOutcome' = [kind |-> "returned", err |-> "none", status |-> resStatus, at |-> t1]
    /\ UNCHANGED <<config, request, requestLogger, startTime, ctxLogger, nextCalls>>
    /\ UNCHANGED <<fnVars, libVars>>

\* lines 72, 100-126: next() raises
NextRaises ==
    /\ pc = "awaiting"
    /\ \E error \in Errors, t1 \in Instants :
        /\ startTime <= t1
        /\ LET caught == CatchBlock(config, request, requestLogger, error, log,
                                    resStatus, startTime, t1)
           IN  /\ resStatus' = caught.status
               /\ log' = caught.log
               /\ thrown' = caught.thrown
               /\ pc' = "threw"
               /\ nextOutcome' = [kind |-> "raised", err |-> error, status |-> resStatus, at |-> t1]
    /\ UNCHANGED <<config, request, requestLogger, startTime, ctxLogger, nextCalls>>
    /\ UNCHANGED <<fnVars, libVars>>

Next == Start \/ HandlerSetStatus \/ NextReturns \/ NextRaises

Spec == Init /\ [][Next]_vars

(***************************************************************************)
(* getHeaders applied to arbitrary header mappings and deny-lists          *)
(***************************************************************************)
InitRedact ==
    /\ config = SpreadMerge(defaultOptions, emptyOptions)
    /\ request \in {r \in Requests : r.method = "GET"}
    /\ MwIdle
    /\ hIn \in HeaderMappings
    /\ hOrig = hIn
    /\ dIn \in DenyLists
    /\ hOut = <<>>
    /\ hPc = "input"
    /\ CtxIdle
    /\ ErrIdle
    /\ ModIdle
    /\ ConcIdle

CallGetHeaders ==
    /\ hPc = "input"
    /\ hOut' = getHeaders(hIn, dIn)
    /\ hPc' = "done"
    /\ UNCHANGED <<hIn, hOrig, dIn>>
    /\ UNCHANGED <<mwVars, libVars>>

NextRedact == CallGetHeaders

SpecRedact == InitRedact /\ [][NextRedact]_vars

(***************************************************************************)
(* context.ts and logger.ts withContext: composing logger handles          *)
(***************************************************************************)
MaxLoggers == 3
MaxEmitted == 2

\* contexts passed to withContext / createContextLogger
Contexts ==
    { <<<<"sessionId", "s1">>>>,
      <<<<"userId", "u9">>, <<"traceId", "t9">>>> }

UserIds == {"u1", "u2"}
TraceIds == {"t1"}

\* requestId arguments: omitted, undefined, the empty string, an id
RequestIdArgs == {NoString(Absent), NoString(Undefined), ArgString(""), ArgString("123")}

\* the call that made a handle: the handle it was called on, the function,
\* the context it attached, and for withRequestContext its requestId argument
\* and what generateRequestId() would return
Derivation(parent, via, context, arg, generated) ==
    [parent |-> parent, via |-> via, context |-> context, arg |-> arg,
     generated |-> generated]

\* defaultLogger / createLogger(): a handle without bindings
InitContext ==
    /\ config = SpreadMerge(defaultOptions, emptyOptions)
    /\ request \in {r \in Requests : r.method = "GET"}
    /\ MwIdle
    /\ FnIdle
    /\ ErrIdle
    /\ ModIdle
    /\ ConcIdle
    /\ loggers = <<baseLogger>>
    /\ derivations = <<Derivation(0, "createLogger", <<>>, NoString(Absent), "")>>
    /\ emitted = <<>>

CtxFrame == UNCHANGED <<mwVars, fnVars, errVars, modVars, concVars>>

\* logger.withContext(context) and createContextLogger(logger, context)
WithContext ==
    /\ Len(loggers) < MaxLoggers
    /\ \E i \in DOMAIN loggers, context \in Contexts, via \in {"withContext", "createContextLogger"} :
        /\ loggers' = Append(loggers, IF via = "withContext"
                                      THEN withContext(loggers[i], context)
                                      ELSE createContextLogger(loggers[i], context))
        /\ derivations' = Append(derivations,
                                 Derivation(i, via, context, NoString(Absent), ""))
    /\ UNCHANGED emitted
    /\ CtxFrame

WithUserContext ==
    /\ Len(loggers) < MaxLoggers
    /\ \E i \in DOMAIN loggers, userId \in UserIds :
        /\ loggers' = Append(loggers, withUserContext(loggers[i], userId))
        /\ derivations' = Append(derivations,
                                 Derivation(i, "withUserContext", <<<<"userId", userId>>>>,
                                            NoString(Absent), ""))
    /\ UNCHANGED emitted
    /\ CtxFrame

WithTraceContext ==
    /\ Len(loggers) < MaxLoggers
    /\ \E i \in DOMAIN loggers, traceId \in TraceIds :
        /\ loggers' = Append(loggers, withTraceContext(loggers[i], traceId))
        /\ derivations' = Append(derivations,
                                 Derivation(i, "withTraceContext", <<<<"traceId", traceId>>>>,
                                            NoString(Absent), ""))
    /\ UNCHANGED emitted
    /\ CtxFrame

WithRequestContext ==
    /\ Len(loggers) < MaxLoggers
    /\ \E i \in DOMAIN loggers, arg \in RequestIdArgs, generated \in RequestIds :
        LET made == withRequestContext(loggers[i], arg, generated) IN
        /\ loggers' = Append(loggers, made)
        /\ derivations' = Append(derivations,
                                 Derivation(i, "withRequestContext",
                                            <<<<"requestId", ObjGet(made.bindings, "requestId")>>>>,
                                            arg, generated))
    /\ UNCHANGED emitted
    /\ CtxFrame

\* logger.info(msg) on any of the handles
LogOn ==
    /\ Len(emitted) < MaxEmitted
    /\ \E i \in DOMAIN loggers :
        emitted' = Append(emitted, [by |-> i, entry |-> Entry(loggers[i], "info", <<>>, "msg")])
    /\ UNCHANGED <<loggers, derivations>>
    /\ CtxFrame

NextContext ==
    WithContext \/ WithUserContext \/ WithTraceContext \/ WithRequestContext \/ LogOn

SpecContext == InitContext /\ [][NextContext]_vars

(***************************************************************************)
(* errors.ts: errorSerializer, isError                                     *)
(*                                                                         *)
(* A JavaScript value is a record: its kind ("null", "undefined",          *)
(* "string", "number", "boolean", "object", "function"), whether it is an  *)
(* instance of Error, its primitive content, and for objects and functions *)
(* the properties a lookup finds on it, own ones in insertion order: each  *)
(* with its key, its value (a string or undefined), whether it is an own   *)
(* property (or inherited), and whether it is enumerable.                  *)
(***************************************************************************)
MaxExtra == 2

Prop(key, val, own, enumerable) ==
    [key |-> key, val |-> val, own |-> own, enumerable |-> enumerable]

JsValue(kind, instance, str, num, bool, props) ==
    [kind |-> kind, instance |-> instance, str |-> str, num |-> num,
     bool |-> bool, props |-> props]

JsUndefined == NoString(Undefined)

\* 'key' in value
In(key, value) == \E i \in DOMAIN value.props : value.props[i].key = key

\* value[key]: undefined when no such property is found
Get(value, key) ==
    IF In(key, value)
    THEN value.props[CHOOSE i \in DOMAIN value.props : value.props[i].key = key].val
    ELSE JsUndefined

\* typeof value
TypeOf(value) == IF value.kind = "null" THEN "object" ELSE value.kind

\* String(value), for the values that are not error-like
String(value) ==
    CASE value.kind = "null" -> "null"
      [] value.kind = "undefined" -> "undefined"
      [] value.kind = "boolean" -> (IF value.bool THEN "true" ELSE "false")
      [] value.kind = "number" -> ToString(value.num)
      [] value.kind = "string" -> value.str
      [] value.kind = "function" -> value.str
      [] OTHER -> "[object Object]"

\* mutant: only instances of Error are errors
isError_InstanceOnly(err) == err.instance

\* err instanceof Error || (typeof err === 'object' && err !== null && 'message' in err)
isError(err) ==
    \/ err.instance
    \/ (TypeOf(err) = "object" /\ err.kind # "null" /\ In("message", err))

\* if (err.stack): a non-empty string
TruthyValue(val) == val.tag = "string" /\ val.s # ""

ReservedErrorKeys == {"name", "message", "stack"}

RECURSIVE CopyOwnProps(_, _, _)
\* the for-in loop of lines 57-64 from property i on: for-in visits the
\* enumerable properties, the body keeps the own ones that are not reserved
CopyOwnProps(serialized, props, i) ==
    IF i > Len(props) THEN serialized
    ELSE CopyOwnProps(
            IF props[i].enumerable /\ props[i].own /\ props[i].key \notin ReservedErrorKeys
            THEN ObjSet(serialized, props[i].key, props[i].val)
            ELSE serialized,
            props, i + 1)

errorSerializer(value) ==
    IF ~isError(value)
    THEN <<<<"error", ArgString(String(value))>>>>
    ELSE LET base == <<<<"type", Get(value, "name")>>, <<"message", Get(value, "message")>>>>
             withStack == IF TruthyValue(Get(value, "stack"))
                          THEN ObjSet(base, "stack", Get(value, "stack"))
                          ELSE base
         IN  CopyOwnProps(withStack, value.props, 1)

\* additional fields found on error values
ExtraProps ==
    { Prop("code", ArgString("CUSTOM_ERROR"), TRUE, TRUE),
      Prop("type", ArgString("validation"), TRUE, TRUE),
      Prop("cause", ArgString("root cause"), TRUE, FALSE),
      Prop("status", ArgString("500"), FALSE, TRUE) }

\* sequences of up to MaxExtra additional fields with distinct keys
ExtraLists ==
    UNION { {x \in [1..n -> ExtraProps] :
                \A i, j \in 1..n : i # j => x[i].key # x[j].key} : n \in 0..MaxExtra }

\* the one-or-no property lists for a key
OptionalProp(choices) == {<<>>} \cup {<<p>> : p \in choices}

\* instances of Error: name comes from the prototype or is assigned in the
\* constructor, message and stack are own and not enumerable
ErrorInstances ==
    { JsValue("object", TRUE, "", 0, FALSE, name \o message \o stack \o extra) :
        name \in { <<Prop("name", ArgString("Error"), FALSE, FALSE)>>,
                   <<Prop("name", ArgString("TypeError"), FALSE, FALSE)>>,
                   <<Prop("name", ArgString("ValidationError"), TRUE, TRUE)>> },
        message \in { <<Prop("message", ArgString("test error"), TRUE, FALSE)>>,
                      <<Prop("message", ArgString(""), TRUE, FALSE)>> },
        stack \in OptionalProp({ Prop("stack", ArgString("Error: test error at f"), TRUE, FALSE),
                                 Prop("stack", ArgString(""), TRUE, FALSE) }),
        extra \in ExtraLists }

\* objects that are not instances of Error
OtherObjects ==
    { JsValue("object", FALSE, "", 0, FALSE, name \o message \o stack \o extra) :
        name \in OptionalProp({ Prop("name", ArgString("Error"), TRUE, TRUE) }),
        message \in OptionalProp({ Prop("message", ArgString("test error"), TRUE, TRUE),
                                   Prop("message", JsUndefined, TRUE, TRUE),
                                   Prop("message", ArgString("inherited"), FALSE, TRUE) }),
        stack \in OptionalProp({ Prop("stack", ArgString("trace"), TRUE, TRUE) }),
        extra \in ExtraLists }

Primitives ==
    { JsValue("null", FALSE, "", 0, FALSE, <<>>),
      JsValue("undefined", FALSE, "", 0, FALSE, <<>>),
      JsValue("string", FALSE, "error", 0, FALSE, <<>>),
      JsValue("string", FALSE, "", 0, FALSE, <<>>),
      JsValue("number", FALSE, "", 42, FALSE, <<>>),
      JsValue("number", FALSE, "", 0, FALSE, <<>>),
      JsValue("boolean", FALSE, "", 0, TRUE, <<>>),
      JsValue("boolean", FALSE, "", 0, FALSE, <<>>) }

Functions ==
    { JsValue("function", FALSE, "() => {}", 0, FALSE, props) :
        props \in OptionalProp({ Prop("message", ArgString("test error"), TRUE, TRUE) }) }

ErrorValues == ErrorInstances \cup OtherObjects \cup Primitives \cup Functions

InitErrors ==
    /\ config = SpreadMerge(defaultOptions, emptyOptions)
    /\ request \in {r \in Requests : r.method = "GET"}
    /\ MwIdle
    /\ FnIdle
    /\ CtxIdle
    /\ ModIdle
    /\ ConcIdle
    /\ eIn \in ErrorValues
    /\ eSerialized = <<>>
    /\ eIsError = FALSE
    /\ ePc = "input"

CallErrorSerializer ==
    /\ ePc = "input"
    /\ eSerialized' = errorSerializer(eIn)
    /\ ePc' = "serialized"
    /\ UNCHANGED <<eIn, eIsError>>
    /\ UNCHANGED <<mwVars, fnVars, ctxVars, modVars, concVars>>

CallIsError ==
    /\ ePc = "input"
    /\ eIsError' = isError(eIn)
    /\ ePc' = "classified"
    /\ UNCHANGED <<eIn, eSerialized>>
    /\ UNCHANGED <<mwVars, fnVars, ctxVars, modVars, concVars>>

NextErrors == CallErrorSerializer \/ CallIsError

SpecErrors == InitErrors /\ [][NextErrors]_vars

(***************************************************************************)
(* constants.ts, config/defaults.ts, logger.ts: the default level, the     *)
(* logger factory, the default logger and the process-wide handlers; and   *)
(* the logger a middleware is constructed with (index.ts lines 10-11)      *)
(***************************************************************************)
MaxProcLog == 2

LOG_LEVELS ==
    [fatal |-> 60, error |-> 50, warn |-> 40, info |-> 30, debug |-> 20, trace |-> 10]

\* (process.env.LOG_LEVEL as LogLevel) || 'info'
DefaultLevel(env) ==
    IF env.tag = "string" /\ env.s # "" THEN OptLevel(env.s) ELSE OptLevel("info")

\* config/defaults.ts defaultOptions, for the value DEFAULT_LEVEL has
loggerDefaultOptions(level) ==
    [level |-> level,
     timestamp |-> OptBool(TRUE),
     messageKey |-> OptLevel("msg"),
     errorKey |-> OptLevel("error")]

\* createLogger(options): the handle made from { ...defaultOptions, ...options }
createLogger(defaults, options) ==
    [name |-> "logger", bindings |-> <<>>,
     mergedOptions |-> SpreadMerge(defaults, options)]

\* { level: config.level }: the key is present, undefined when config has none
LevelOnly(cfg) ==
    [loggerEmptyOptions EXCEPT
        !.level = IF cfg.level.tag = Absent THEN NoLevel(Undefined) ELSE cfg.level]

\* options.logger ?? createLogger({ level: config.level })
MiddlewareLogger(options, defaults) ==
    LET cfg == SpreadMerge(defaultOptions, options) IN
    IF ~Nullish(options.logger)
    THEN options.logger.handle
    ELSE createLogger(defaults, LevelOnly(cfg))

ExitFailure == 1

Running == [tag |-> "running", code |-> 0]

\* mutant: the handler logs and returns
FatalHandler_LogsOnly(logger, logIn, err, msg) ==
    [log |-> Append(logIn, Entry(logger, "fatal", <<<<"err", err>>>>, msg)),
     exit |-> Running]

\* defaultLogger.fatal({ err }, msg); process.exit(1)
FatalHandler(logger, logIn, err, msg) ==
    [log |-> Append(logIn, Entry(logger, "fatal", <<<<"err", err>>>>, msg)),
     exit |-> [tag |-> "exited", code |-> ExitFailure]]

UncaughtExceptionMsg == "Uncaught Exception"
UnhandledRejectionMsg == "Unhandled Promise Rejection"

\* values of the LOG_LEVEL environment variable
EnvLogLevels ==
    { NoString(Absent), ArgString(""), ArgString("info"), ArgString("debug"),
      ArgString("fatal"), ArgString("verbose"), ArgString("INFO") }

\* a logger the application made itself and passes as options.logger
ProvidedLogger ==
    [name |-> "provided", bindings |-> <<>>,
     mergedOptions |-> loggerDefaultOptions(OptLevel("warn"))]

\* middleware options: level omitted, undefined or given; logger omitted,
\* undefined or given
MiddlewareOptions ==
    { [emptyOptions EXCEPT !.level = lv, !.logger = lg] :
        lv \in {NoLevel(Absent), NoLevel(Undefined), OptLevel("debug")},
        lg \in {NoLogger(Absent), NoLogger(Undefined), OptLogger(ProvidedLogger)} }

\* the process before logger.ts is loaded
InitModule ==
    /\ config = SpreadMerge(defaultOptions, emptyOptions)
    /\ request \in {r \in Requests : r.method = "GET"}
    /\ MwIdle
    /\ FnIdle
    /\ CtxIdle
    /\ ErrIdle
    /\ ConcIdle
    /\ envLogLevel \in EnvLogLevels
    /\ DEFAULT_LEVEL = NoString(Undefined)
    /\ defaultLogger = NoHandle
    /\ procLog = <<>>
    /\ faults = <<>>
    /\ exit = Running
    /\ mwOptions = emptyOptions
    /\ mwLogger = NoHandle

ModFrame == UNCHANGED <<mwVars, fnVars, ctxVars, errVars, concVars>>

Loaded == defaultLogger # NoHandle

\* loading logger.ts: constants.ts line 23, logger.ts lines 26-39
LoadModule ==
    /\ ~Loaded
    /\ exit = Running
    /\ DEFAULT_LEVEL' = DefaultLevel(envLogLevel)
    /\ defaultLogger' = createLogger(loggerDefaultOptions(DefaultLevel(envLogLevel)),
                                     loggerEmptyOptions)
    /\ UNCHANGED <<envLogLevel, procLog, faults, exit, mwOptions, mwLogger>>
    /\ ModFrame

\* observabilityMiddleware(options), lines 10-11
ConstructMiddleware ==
    /\ Loaded
    /\ exit = Running
    /\ \E options \in MiddlewareOptions :
        /\ mwOptions' = options
        /\ mwLogger' = MiddlewareLogger(options, loggerDefaultOptions(DEFAULT_LEVEL))
    /\ UNCHANGED <<envLogLevel, DEFAULT_LEVEL, defaultLogger, procLog, faults, exit>>
    /\ ModFrame

\* the application logs on defaultLogger
DefaultLoggerLog ==
    /\ Loaded
    /\ exit = Running
    /\ Len(procLog) < MaxProcLog
    /\ \E level \in {"info", "fatal"} :
        procLog' = Append(procLog, Entry(defaultLogger, level, <<>>, "msg"))
    /\ UNCHANGED <<envLogLevel, DEFAULT_LEVEL, defaultLogger, faults, exit,
                   mwOptions, mwLogger>>
    /\ ModFrame

\* process.on('uncaughtException', ...)
UncaughtException ==
    /\ Loaded
    /\ exit = Running
    /\ \E err \in Errors :
        LET handled == FatalHandler(defaultLogger, procLog, err, UncaughtExceptionMsg) IN
        /\ procLog' = handled.log
        /\ exit' = handled.exit
        /\ faults' = Append(faults, [signal |-> "uncaughtException", err |-> err])
    /\ UNCHANGED <<envLogLevel, DEFAULT_LEVEL, defaultLogger, mwOptions, mwLogger>>
    /\ ModFrame

\* process.on('unhandledRejection', ...)
UnhandledRejection ==
    /\ Loaded
    /\ exit = Running
    /\ \E reason \in Errors :
        LET handled == FatalHandler(defaultLogger, procLog, reason, UnhandledRejectionMsg) IN
        /\ procLog' = handled.log
        /\ exit' = handled.exit
        /\ faults' = Append(faults, [signal |-> "unhandledRejection", err |-> reason])
    /\ UNCHANGED <<envLogLevel, DEFAULT_LEVEL, defaultLogger, mwOptions, mwLogger>>
    /\ ModFrame

NextModule ==
    \/ LoadModule
    \/ ConstructMiddleware
    \/ DefaultLoggerLog
    \/ UncaughtException
    \/ UnhandledRejection

SpecModule == InitModule /\ [][NextModule]_vars

(***************************************************************************)
(* Several requests in flight through one middleware instance: every call  *)
(* of the handler (index.ts lines 13-128) runs on its own request context  *)
(* and shares the closure's config and logger (lines 10-11)                *)
(***************************************************************************)
MaxRequests == 2

\* configurations of the shared instance: the defaults, a user-context
\* extractor, and callbacks that raise in each phase
ConcurrentOptions ==
    { emptyOptions,
      [emptyOptions EXCEPT !.getUserContext = OptFn("userId")],
      [emptyOptions EXCEPT !.formatRequest = OptFn("throws")],
      [emptyOptions EXCEPT !.formatResponse = OptFn("throws")],
      [emptyOptions EXCEPT !.formatError = OptFn("throws")] }

\* clock readings after the start: at once, and past the slow threshold
ConcurrentInstants == {1, DefaultSlowRequestThreshold * NsPerMs + 1}

ConcurrentStatuses == {200, 404}

\* the entries an invocation emitted, each with the invocation it belongs to
Tagged(r, entries) == [i \in DOMAIN entries |-> [req |-> r, entry |-> entries[i]]]

InitConcurrent ==
    /\ \E options \in ConcurrentOptions : config = SpreadMerge(defaultOptions, options)
    /\ request \in {r \in Requests : r.method = "GET"}
    /\ MwIdle
    /\ FnIdle
    /\ CtxIdle
    /\ ErrIdle
    /\ ModIdle
    /\ reqs = <<>>
    /\ sharedLog = <<>>
    /\ sharedLogger = baseLogger
    /\ constructed = [config |-> config, logger |-> baseLogger]

ConcFrame == UNCHANGED <<mwVars, fnVars, ctxVars, errVars, modVars>>

\* lines 14-72 for a new request, while other requests may be suspended at
\* their next()
ConcStart ==
    /\ Len(reqs) < MaxRequests
    /\ \E req \in Requests, generated \in RequestIds :
        LET r == Len(reqs) + 1
            reqLogger == withRequestContext(sharedLogger, NoString(Absent), generated)
            rc == RequestContext(config, req)
            others == [q \in DOMAIN reqs |->
                         IF ~rc.threw /\ reqs[q].pc = "awaiting"
                         THEN [reqs[q] EXCEPT !.overlapped = TRUE]
                         ELSE reqs[q]]
            started ==
                [request |-> req,
                 generated |-> generated,
                 requestLogger |-> reqLogger,
                 ctxLogger |-> IF rc.threw
                               THEN [name |-> "unset", bindings |-> <<>>]
                               ELSE ContextLogger(sharedLogger, reqLogger),
                 startTime |-> 0,
                 resStatus |-> 0,
                 pc |-> IF rc.threw THEN "threw" ELSE "awaiting",
                 nextCalls |-> IF rc.threw THEN 0 ELSE 1,
                 nextOutcome |-> NoOutcome,
                 thrown |-> IF rc.threw THEN rc.err ELSE "none",
                 overlapped |-> ~rc.threw /\ \E q \in DOMAIN reqs : reqs[q].pc = "awaiting"]
        IN  /\ reqs' = Append(others, started)
            /\ sharedLog' =
                  IF rc.threw THEN sharedLog
                  ELSE sharedLog \o Tagged(r, <<Entry(reqLogger, "info", rc.payload,
                                                      IncomingRequest)>>)
    /\ UNCHANGED <<sharedLogger, constructed>>
    /\ ConcFrame

\* the handler of a suspended request sets that request's response status
ConcHandlerSetStatus ==
    /\ \E r \in DOMAIN reqs, st \in ConcurrentStatuses :
        /\ reqs[r].pc = "awaiting"
        /\ reqs[r].resStatus # st
        /\ reqs' = [reqs EXCEPT ![r].resStatus = st]
    /\ UNCHANGED <<sharedLog, sharedLogger, constructed>>
    /\ ConcFrame

\* lines 72-98 (and 100-126 when formatResponse raises) for one request
ConcNextReturns ==
    /\ \E r \in DOMAIN reqs, t1 \in ConcurrentInstants, t2 \in ConcurrentInstants :
        /\ reqs[r].pc = "awaiting"
        /\ t1 <= t2
        /\ LET me == reqs[r]
               duration == formatDuration(me.startTime, t1)
               log1 == AfterSlowCheck(config, me.requestLogger, <<>>, duration)
               caught == CatchBlock(config, me.request, me.requestLogger,
                                    "formatResponseError", log1, me.resStatus,
                                    me.startTime, t2)
               outcome == [kind |-> "returned", err |-> "none",
                           status |-> me.resStatus, at |-> t1]
           IN  IF Throws(config.formatResponse)
               THEN /\ reqs' = [reqs EXCEPT ![r].resStatus = caught.status,
                                            ![r].thrown = caught.thrown,
                                            ![r].pc = "threw",
                                            ![r].nextOutcome = outcome]
                    /\ sharedLog' = sharedLog \o Tagged(r, caught.log)
               ELSE /\ reqs' = [reqs EXCEPT ![r].pc = "returned",
                                            ![r].nextOutcome = outcome]
                    /\ sharedLog' = sharedLog \o Tagged(r,
                          Append(log1,
                                 Entry(me.requestLogger, "info",
                                       IF Truthy(config.formatResponse)
                                       THEN CustomResponsePayload
                                       ELSE ResponseContext(me.resStatus, duration),
                                       RequestCompleted)))
    /\ UNCHANGED <<sharedLogger, constructed>>
    /\ ConcFrame

\* lines 72, 100-126 for one request whose next() raises
ConcNextRaises ==
    /\ \E r \in DOMAIN reqs, error \in Errors, t1 \in ConcurrentInstants :
        /\ reqs[r].pc = "awaiting"
        /\ LET me == reqs[r]
               caught == CatchBlock(config, me.request, me.requestLogger, error, <<>>,
                                    me.resStatus, me.startTime, t1)
           IN  /\ reqs' = [reqs EXCEPT ![r].resStatus = caught.status,
                                       ![r].thrown = caught.thrown,
                                       ![r].pc = "threw",
                                       ![r].nextOutcome =
                                           [kind |-> "raised", err |-> error,
                                            status |-> me.resStatus, at |-> t1]]
               /\ sharedLog' = sharedLog \o Tagged(r, caught.log)
    /\ UNCHANGED <<sharedLogger, constructed>>
    /\ ConcFrame

NextConcurrent ==
    ConcStart \/ ConcHandlerSetStatus \/ ConcNextReturns \/ ConcNextRaises

SpecConcurrent == InitConcurrent /\ [][NextConcurrent]_vars

(***************************************************************************)
(* Properties of the middleware lifecycle                                  *)
(***************************************************************************)
EntriesOf(level, msg) == {i \in DOMAIN log : log[i].level = level /\ log[i].msg = msg}

Completions == EntriesOf("info", RequestCompleted)
Failures == EntriesOf("error", RequestFailed)
Incomings == EntriesOf("info", IncomingRequest)
SlowWarnings == EntriesOf("warn", SlowRequestDetected)

NextSettled == nextOutcome.kind # "pending"
IsDefaultConfig == config = SpreadMerge(defaultOptions, emptyOptions)

\* C1: whenever next() has settled, exactly one terminal entry was emitted:
\* one info "Request completed" or one error "Request failed", for every
\* configuration.
C1_ExactlyOneTerminalEntry ==
    NextSettled => Cardinality(Completions) + Cardinality(Failures) = 1

\* C2: whenever next() raised E, the invocation fails with that same E, and
\* the "Request failed" entry was logged before it, for every configuration.
C2_RethrowsOriginalError ==
    nextOutcome.kind = "raised" =>
        /\ pc = "threw"
        /\ thrown = nextOutcome.err
        /\ log # <<>>
        /\ Len(log) \in Failures

\* C3: every invocation that has ended emitted exactly one info "Incoming
\* request" entry and invoked next() exactly once, the entry being in the log
\* by the time next() is invoked.
C3_OneIncomingThenNext ==
    /\ pc = "awaiting" => Cardinality(Incomings) = 1 /\ nextCalls = 1
    /\ pc \in {"returned", "threw"} => Cardinality(Incomings) = 1 /\ nextCalls = 1

\* C4: when next() raised, a status that was unset or below 400 is now 500, a
\* status of 400 or more is unchanged, and the status field of the "Request
\* failed" payload is the status after this step, hence at least 400.
C4_ErrorStatusForced ==
    nextOutcome.kind = "raised" =>
        /\ nextOutcome.status < 400 => resStatus = 500
        /\ nextOutcome.status >= 400 => resStatus = nextOutcome.status
        /\ \A i \in Failures :
              ObjHas(log[i].payload, "status") =>
                  /\ ObjGet(log[i].payload, "status") = resStatus
                  /\ ObjGet(log[i].payload, "status") >= 400

\* C4 witness: next() raised while the status was 399; the status and the
\* logged status are 500.
C4_Witness ==
    /\ nextOutcome.kind = "raised"
    /\ nextOutcome.status = 399
    /\ resStatus = 500
    /\ \E i \in Failures : ObjHas(log[i].payload, "status")
                           /\ ObjGet(log[i].payload, "status") = 500

\* C5: under the default configuration, when next() raised E there is exactly
\* one error-level entry, it is "Request failed", its payload carries err = E,
\* a duration, the status, and the request's method and path, and there is no
\* "Request completed" entry.
C5_DefaultFailureEntry ==
    (IsDefaultConfig /\ nextOutcome.kind = "raised") =>
        /\ Cardinality({i \in DOMAIN log : log[i].level = "error"}) = 1
        /\ Cardinality(Failures) = 1
        /\ \A i \in Failures :
              LET p == log[i].payload IN
              /\ ObjKeys(p) = {"err", "duration", "status", "method", "path"}
              /\ ObjGet(p, "err") = nextOutcome.err
              /\ ObjGet(p, "duration") =
                    [whole |-> (nextOutcome.at - startTime) \div NsPerMs,
                     frac |-> (nextOutcome.at - startTime) % NsPerMs]
              /\ ObjGet(p, "status") = resStatus
              /\ ObjGet(p, "method") = request.method
              /\ ObjGet(p, "path") = request.path
        /\ Completions = {}

\* C5 witness: default configuration, next() raised E2 for POST /error, and
\* the failure entry with err = E2, that method and that path is in the log.
C5_Witness ==
    /\ IsDefaultConfig
    /\ nextOutcome.kind = "raised"
    /\ nextOutcome.err = "E2"
    /\ request.method = "POST"
    /\ \E i \in Failures : /\ ObjGet(log[i].payload, "err") = "E2"
                           /\ ObjGet(log[i].payload, "method") = "POST"
                           /\ ObjGet(log[i].payload, "path") = "/error"

\* the threshold the claim names: the configured number, else 1000
ClaimedThreshold ==
    IF config.slowRequestThreshold.tag = "number"
    THEN config.slowRequestThreshold.n ELSE 1000

\* C6: a warn "Slow request detected" entry is emitted iff next() returned
\* normally and the elapsed time is strictly above the threshold; then it is
\* one entry with payload {duration, threshold}, it precedes the "Request
\* completed" entry, and that entry is still emitted.
C6_SlowWarning ==
    NextSettled =>
        /\ SlowWarnings # {} <=>
              /\ nextOutcome.kind = "returned"
              /\ nextOutcome.at - startTime > ClaimedThreshold * NsPerMs
        /\ Cardinality(SlowWarnings) <= 1
        /\ \A i \in SlowWarnings :
              /\ ObjKeys(log[i].payload) = {"duration", "threshold"}
              /\ ObjGet(log[i].payload, "threshold") = ClaimedThreshold
              /\ \E j \in Completions : i < j

\* C7: if next() returned normally, the invocation returns normally, the
\* response status is the one next() left, and no "Request failed" entry is
\* emitted, for every configuration.
C7_NormalReturn ==
    nextOutcome.kind = "returned" =>
        /\ pc = "returned"
        /\ resStatus = nextOutcome.status
        /\ Failures = {}

(***************************************************************************)
(* Properties of getHeaders                                                *)
(***************************************************************************)
InDenyList(name) == \E j \in DOMAIN dIn : dIn[j] = name

\* the last entry of H whose key lower-cases to name
LastWithLowerKey(name) ==
    CHOOSE i \in DOMAIN hOrig :
        /\ toLowerCase(hOrig[i][1]) = name
        /\ \A j \in DOMAIN hOrig : toLowerCase(hOrig[j][1]) = name => j <= i

\* C8 as stated: after getHeaders(H, D), every key of H whose lower-cased form
\* is in D maps to "[REDACTED]", every other entry keeps its own value, the
\* result keys are the lower-cased keys of H, and H is not modified.
C8_RedactsAndKeepsEveryEntry ==
    hPc = "done" =>
        /\ \A i \in DOMAIN hOrig :
              LET lowerKey == toLowerCase(hOrig[i][1]) IN
              /\ ObjHas(hOut, lowerKey)
              /\ InDenyList(lowerKey) => ObjGet(hOut, lowerKey) = REDACTED
              /\ ~InDenyList(lowerKey) => ObjGet(hOut, lowerKey) = hOrig[i][2]
        /\ ObjKeys(hOut) = {toLowerCase(hOrig[i][1]) : i \in DOMAIN hOrig}
        /\ hIn = hOrig

\* C8 amended: as C8, except that a key whose lower-cased form is not in D maps
\* to the value of the last entry of H with that lower-cased key (keys of H
\* that differ only in case collapse into one entry, the last one winning).
C8_RedactsAndKeepsLastEntry ==
    hPc = "done" =>
        /\ \A i \in DOMAIN hOrig :
              LET lowerKey == toLowerCase(hOrig[i][1]) IN
              /\ ObjHas(hOut, lowerKey)
              /\ InDenyList(lowerKey) => ObjGet(hOut, lowerKey) = REDACTED
              /\ ~InDenyList(lowerKey) =>
                    ObjGet(hOut, lowerKey) = hOrig[LastWithLowerKey(lowerKey)][2]
        /\ ObjKeys(hOut) = {toLowerCase(hOrig[i][1]) : i \in DOMAIN hOrig}
        /\ \A i, j \in DOMAIN hOut : i # j => hOut[i][1] # hOut[j][1]
        /\ hIn = hOrig

\* C8 witness: H holds an upper-case key whose lower-cased form is in D, now
\* redacted, and a key not in D that kept its value.
C8_Witness ==
    /\ hPc = "done"
    /\ \E i \in DOMAIN hOrig :
          /\ hOrig[i][1] # toLowerCase(hOrig[i][1])
          /\ InDenyList(toLowerCase(hOrig[i][1]))
          /\ ObjGet(hOut, toLowerCase(hOrig[i][1])) = REDACTED
    /\ \E i \in DOMAIN hOrig :
          /\ ~InDenyList(toLowerCase(hOrig[i][1]))
          /\ ObjGet(hOut, toLowerCase(hOrig[i][1])) = hOrig[i][2]

\* C9: a header whose name equals a deny-list entry ignoring letter case,
\* however the entry is written, has the value "[REDACTED]" in the result.
C9_DenyListCaseInsensitive ==
    hPc = "done" =>
        \A i \in DOMAIN hOrig, j \in DOMAIN dIn :
            toLowerCase(hOrig[i][1]) = toLowerCase(dIn[j]) =>
                ObjGet(hOut, toLowerCase(hOrig[i][1])) = REDACTED

(***************************************************************************)
(* Properties of the logged headers                                        *)
(***************************************************************************)
\* the deny-list in force: config.redactHeaders ?? []
DenyInForce == IF Nullish(config.redactHeaders) THEN <<>> ELSE config.redactHeaders.a

RequestLowerKeys == {toLowerCase(request.headers[i][1]) : i \in DOMAIN request.headers}

\* the value a request header name has after lower-casing and redaction
RedactedValue(name) ==
    IF ArrayIncludes(DenyInForce, name) THEN REDACTED
    ELSE LET last == CHOOSE i \in DOMAIN request.headers :
                        /\ toLowerCase(request.headers[i][1]) = name
                        /\ \A j \in DOMAIN request.headers :
                              toLowerCase(request.headers[j][1]) = name => j <= i
         IN  request.headers[last][2]

\* the first entry's headers are the redacted request headers, cut down to the
\* allow-list when there is one
LoggedHeadersAreRedacted ==
    LET p == log[1].payload
        logged == ObjGet(p, "headers")
    IN  /\ \A i \in DOMAIN logged :
              ArrayIncludes(DenyInForce, toLowerCase(logged[i][1])) =>
                  logged[i][2] = REDACTED
        /\ ObjKeys(logged) =
              IF config.includeHeaders.tag = "array"
              THEN {k \in RequestLowerKeys : ArrayIncludes(config.includeHeaders.a, k)}
              ELSE RequestLowerKeys
        /\ \A i \in DOMAIN logged : logged[i][2] = RedactedValue(logged[i][1])

\* C10 as stated: with includeHeaders truthy and no custom request formatter,
\* the "Incoming request" payload's headers hold "[REDACTED]" for every name in
\* redactHeaders, and are exactly the redacted request headers (those on the
\* allow-list when includeHeaders is a list).
C10_HeadersRedactedThenFiltered ==
    (Truthy(config.includeHeaders) /\ ~Truthy(config.formatRequest) /\ log # <<>>) =>
        /\ ObjHas(log[1].payload, "headers")
        /\ LoggedHeadersAreRedacted

\* C10 amended: the same, provided the user-context extractor, if any,
\* returns no "headers" field of its own (its fields are merged over the
\* computed payload and would replace the redacted headers).
C10_HeadersRedactedUnlessOverridden ==
    (/\ Truthy(config.includeHeaders)
     /\ ~Truthy(config.formatRequest)
     /\ log # <<>>
     /\ ~(/\ Truthy(config.getUserContext)
          /\ ObjHas(UserContextResult(config.getUserContext.f, request), "headers"))) =>
        /\ ObjHas(log[1].payload, "headers")
        /\ LoggedHeadersAreRedacted

\* C10 witness: an allow-list naming authorization, which is on the deny-list:
\* the first entry logs authorization as "[REDACTED]" beside x-test.
C10_Witness ==
    /\ config.includeHeaders.tag = "array"
    /\ ArrayIncludes(config.includeHeaders.a, hdrAuthorization)
    /\ ArrayIncludes(DenyInForce, hdrAuthorization)
    /\ log # <<>>
    /\ ObjHas(log[1].payload, "headers")
    /\ ObjHas(ObjGet(log[1].payload, "headers"), hdrAuthorization)
    /\ ObjGet(ObjGet(log[1].payload, "headers"), hdrAuthorization) = REDACTED
    /\ ObjHas(ObjGet(log[1].payload, "headers"), hdrXTest)

(***************************************************************************)
(* Properties of the logged payloads and of the context logger             *)
(***************************************************************************)
\* the last value the request URL's query string gives to key
LastQueryValue(key) ==
    LET search == request.url.search
        last == CHOOSE i \in DOMAIN search :
                    /\ search[i][1] = key
                    /\ \A j \in DOMAIN search : search[j][1] = key => j <= i
    IN  search[last][2]

\* C11: without custom request formatter and user-context extractor, the
\* "Incoming request" payload holds method, url and path, holds headers iff
\* includeHeaders is truthy and query iff includeQueryParams is truthy, the
\* query being the parsed query string of the URL (no headers and no query
\* under the default configuration).
C11_IncomingPayloadFields ==
    (/\ ~Truthy(config.formatRequest)
     /\ ~Truthy(config.getUserContext)
     /\ log # <<>>) =>
        LET p == log[1].payload IN
        /\ log[1].level = "info" /\ log[1].msg = IncomingRequest
        /\ ObjKeys(p) = {"method", "url", "path"}
                        \cup (IF Truthy(config.includeHeaders) THEN {"headers"} ELSE {})
                        \cup (IF Truthy(config.includeQueryParams) THEN {"query"} ELSE {})
        /\ ObjGet(p, "method") = request.method
        /\ ObjGet(p, "url") = request.url
        /\ ObjGet(p, "path") = request.path
        /\ IsDefaultConfig => ObjKeys(p) = {"method", "url", "path"}
        /\ ObjHas(p, "query") =>
              LET q == ObjGet(p, "query") IN
              /\ ObjKeys(q) = {request.url.search[i][1] : i \in DOMAIN request.url.search}
              /\ \A i \in DOMAIN q : q[i][2] = LastQueryValue(q[i][1])

\* C11 witness: includeQueryParams set, includeHeaders not, for GET
\* /users?x=1&y=2&x=3: the first payload has query {x: "3", y: "2"} and no
\* headers.
C11_Witness ==
    /\ Truthy(config.includeQueryParams)
    /\ ~Truthy(config.includeHeaders)
    /\ ~Truthy(config.formatRequest)
    /\ ~Truthy(config.getUserContext)
    /\ log # <<>>
    /\ ObjHas(log[1].payload, "query")
    /\ ~ObjHas(log[1].payload, "headers")
    /\ ObjHas(ObjGet(log[1].payload, "query"), "x")
    /\ ObjGet(ObjGet(log[1].payload, "query"), "x") = "3"
    /\ ObjGet(ObjGet(log[1].payload, "query"), "y") = "2"

IsCustom(p, phase) == ObjKeys(p) = {"custom"} /\ ObjGet(p, "custom") = phase

\* C12: a configured formatter's result is the whole payload of its phase:
\* formatRequest for "Incoming request", formatResponse for "Request
\* completed", formatError for "Request failed"; none of the computed fields
\* are added, and the entry keeps its level and message.
C12_FormatterReplacesPayload ==
    /\ (Truthy(config.formatRequest) /\ pc # "idle" /\ nextCalls = 1) =>
          /\ Incomings = {1}
          /\ IsCustom(log[1].payload, "request")
    /\ Truthy(config.formatResponse) =>
          /\ \A i \in Completions : IsCustom(log[i].payload, "response")
          /\ pc = "returned" => Completions # {}
    /\ Truthy(config.formatError) =>
          /\ \A i \in Failures : IsCustom(log[i].payload, "error")
          /\ (nextOutcome.kind = "raised" /\ ~Throws(config.formatError)) => Failures # {}

\* C12 witness: all three formatters are set beside a user-context extractor
\* and header and query logging; next() raised, and the log is the custom
\* request payload at info followed by the custom error payload at error.
C12_Witness ==
    /\ Truthy(config.formatRequest)
    /\ Truthy(config.formatError)
    /\ Truthy(config.getUserContext)
    /\ Truthy(config.includeHeaders)
    /\ nextOutcome.kind = "raised"
    /\ Len(log) = 2
    /\ IsCustom(log[1].payload, "request") /\ log[1].msg = IncomingRequest
    /\ IsCustom(log[2].payload, "error") /\ log[2].msg = RequestFailed

\* C13: while next() runs and afterwards, c.get('logger') is the per-request
\* child logger: it carries the request's requestId and it is the logger
\* every entry of the request was emitted through.
C13_ContextLoggerIsRequestLogger ==
    nextCalls = 1 =>
        /\ ctxLogger = requestLogger
        /\ ObjKeys(ctxLogger.bindings) = {"requestId"}
        /\ ObjGet(ctxLogger.bindings, "requestId") \in RequestIds
        /\ \A i \in DOMAIN log : log[i].logger = ctxLogger

\* C13 witness: next() is running, the context holds the child logger with
\* requestId req_2_b, and the "Incoming request" entry came from it.
C13_Witness ==
    /\ pc = "awaiting"
    /\ nextCalls = 1
    /\ ObjGet(ctxLogger.bindings, "requestId") = "req_2_b"
    /\ Len(log) = 1
    /\ log[1].logger = ctxLogger

(***************************************************************************)
(* Properties of context composition                                       *)
(***************************************************************************)
\* the fields an entry is written with: the handle's bindings, then the
\* payload of the call
EntryFields(e) == ObjAssign(e.logger.bindings, e.payload)

\* b is ctx merged over parentBindings, ctx winning on a collision
MergedOver(b, parentBindings, ctx) ==
    /\ ObjKeys(b) = ObjKeys(parentBindings) \cup ObjKeys(ctx)
    /\ \A k \in ObjKeys(b) :
          ObjGet(b, k) = IF ObjHas(ctx, k) THEN ObjGet(ctx, k) ELSE ObjGet(parentBindings, k)

RECURSIVE ChainKeys(_)
\* the keys attached to handle i by its own derivation and its ancestors'
ChainKeys(i) ==
    IF i = 0 THEN {}
    ELSE ObjKeys(derivations[i].context) \cup ChainKeys(derivations[i].parent)

\* C14: withContext, createContextLogger, withUserContext and
\* withTraceContext return a new handle whose entries carry the context merged
\* over the parent's, later keys winning; the handle they were called on is
\* not changed: the root stays without bindings, and an entry logged through a
\* handle carries only keys attached along that handle's own chain, never
\* those attached through a handle derived from it.
C14_ContextCompositionNonMutating ==
    /\ loggers # <<>> => loggers[1].bindings = <<>>
    /\ \A i \in DOMAIN loggers :
          derivations[i].parent # 0 =>
              MergedOver(loggers[i].bindings,
                         loggers[derivations[i].parent].bindings,
                         derivations[i].context)
    /\ \A n \in DOMAIN emitted :
          /\ emitted[n].entry.logger = loggers[emitted[n].by]
          /\ ObjKeys(EntryFields(emitted[n].entry)) = ChainKeys(emitted[n].by)
          /\ \A j \in DOMAIN loggers :
                derivations[j].parent = emitted[n].by =>
                    \A k \in ObjKeys(derivations[j].context) \ ChainKeys(emitted[n].by) :
                        ~ObjHas(EntryFields(emitted[n].entry), k)

\* C14 witness: the root got userId u1, that child got {userId: u9, traceId:
\* t9} through withContext; the grandchild carries u9, the child still logs
\* u1 without traceId, and the root logs no field at all.
C14_Witness ==
    /\ Len(loggers) = 3
    /\ derivations[2] = Derivation(1, "withUserContext", <<<<"userId", "u1">>>>,
                                   NoString(Absent), "")
    /\ derivations[3].parent = 2 /\ derivations[3].via = "withContext"
    /\ ObjGet(loggers[3].bindings, "userId") = "u9"
    /\ ObjGet(loggers[3].bindings, "traceId") = "t9"
    /\ Len(emitted) = 2
    /\ emitted[1].by = 2 /\ emitted[2].by = 1
    /\ ObjKeys(EntryFields(emitted[1].entry)) = {"userId"}
    /\ ObjGet(EntryFields(emitted[1].entry), "userId") = "u1"
    /\ EntryFields(emitted[2].entry) = <<>>

\* C15: withRequestContext(logger, requestId) attaches exactly {requestId:
\* requestId} for every supplied requestId that is not null or undefined, the
\* empty string included, and a generated id only when none is supplied.
C15_RequestIdNullishDefault ==
    \A i \in DOMAIN loggers :
        derivations[i].via = "withRequestContext" =>
            ObjGet(loggers[i].bindings, "requestId") =
                IF Nullish(derivations[i].arg)
                THEN derivations[i].generated
                ELSE derivations[i].arg.s

(***************************************************************************)
(* Properties of the error utilities                                       *)
(***************************************************************************)
\* the own properties of the argument besides name, message and stack
ExtraOwnProps ==
    {i \in DOMAIN eIn.props :
        eIn.props[i].own /\ eIn.props[i].key \notin ReservedErrorKeys}

\* C16: for every error-like value E, errorSerializer(E) has type and
\* message, which are E's name and message, has stack iff E exposes a
\* non-empty stack, and has every additional own field of E except name,
\* message and stack.
C16_SerializedErrorFields ==
    (ePc = "serialized" /\ isError(eIn)) =>
        /\ ObjHas(eSerialized, "type")
        /\ ObjHas(eSerialized, "message")
        /\ ObjGet(eSerialized, "type") = Get(eIn, "name")
        /\ ObjGet(eSerialized, "message") = Get(eIn, "message")
        /\ ObjHas(eSerialized, "stack") <=> TruthyValue(Get(eIn, "stack"))
        /\ \A i \in ExtraOwnProps :
              \/ eIn.props[i].key = "type"
              \/ /\ ObjHas(eSerialized, eIn.props[i].key)
                 /\ ObjGet(eSerialized, eIn.props[i].key) = eIn.props[i].val

\* the classification the specification gives: error instances, and objects
\* that are not null and carry a message field, own or inherited, whatever
\* its value
ErrorLike(v) ==
    \/ v.instance
    \/ v.kind = "object" /\ (\E i \in DOMAIN v.props : v.props[i].key = "message")

\* C17: isError(v) is true exactly when v is an instance of Error or an object
\* carrying a message field; it is false for null, undefined, every
\* primitive, and every object without a message field.  ("Plain object" is
\* read as any non-null value of type object that is not an Error.)
C17_IsErrorClassification ==
    ePc = "classified" =>
        /\ eIsError <=> ErrorLike(eIn)
        /\ eIn.kind \in {"null", "undefined", "string", "number", "boolean"} => ~eIsError
        /\ (eIn.kind = "object" /\ ~eIn.instance /\ ~In("message", eIn)) => ~eIsError

\* C17 witness: an object that is not an Error and whose only message field
\* is inherited has been classified as an error.
C17_Witness ==
    /\ ePc = "classified"
    /\ eIsError
    /\ ~eIn.instance
    /\ eIn.kind = "object"
    /\ \E i \in DOMAIN eIn.props : eIn.props[i].key = "message" /\ ~eIn.props[i].own

(***************************************************************************)
(* Properties of the default level, the process handlers and the           *)
(* middleware's logger                                                     *)
(***************************************************************************)
LevelNames == DOMAIN LOG_LEVELS

\* C18: the default minimum level is the LOG_LEVEL environment value only if
\* that value is one of fatal, error, warn, info, debug, trace; if LOG_LEVEL
\* is unset or any other string, it is 'info'.
C18_DefaultLevelRecognizedOrInfo ==
    Loaded =>
        DEFAULT_LEVEL = IF envLogLevel.tag = "string" /\ envLogLevel.s \in LevelNames
                        THEN OptLevel(envLogLevel.s)
                        ELSE OptLevel("info")

\* the fatal entries that carry err as their err field
FatalEntriesFor(err) ==
    {i \in DOMAIN procLog :
        /\ procLog[i].level = "fatal"
        /\ ObjHas(procLog[i].payload, "err")
        /\ ObjGet(procLog[i].payload, "err") = err}

\* C19: once the module is loaded, an uncaught exception or an unhandled
\* rejection gives exactly one fatal entry on the default logger with the
\* error as err, and then the process has exited with a non-zero status: the
\* entry is in the log when the process exits, and no handler leaves the
\* process running.
C19_FatalEntryThenExit ==
    /\ \A n \in DOMAIN faults :
          /\ Cardinality(FatalEntriesFor(faults[n].err)) = 1
          /\ \A i \in FatalEntriesFor(faults[n].err) :
                /\ procLog[i].logger = defaultLogger
                /\ procLog[i].msg = IF faults[n].signal = "uncaughtException"
                                    THEN UncaughtExceptionMsg
                                    ELSE UnhandledRejectionMsg
          /\ exit.tag = "exited"
          /\ exit.code # 0
    /\ exit.tag = "exited" =>
          /\ Len(faults) = 1
          /\ procLog # <<>>
          /\ Len(procLog) \in FatalEntriesFor(faults[1].err)

\* C19 witness: after the application logged a fatal entry of its own, a
\* promise rejection with reason E2 went unhandled; the last entry is the
\* handler's and the process has exited with status 1.
C19_Witness ==
    /\ Len(faults) = 1
    /\ faults[1] = [signal |-> "unhandledRejection", err |-> "E2"]
    /\ Len(procLog) = 2
    /\ procLog[1].level = "fatal" /\ procLog[1].payload = <<>>
    /\ procLog[2].level = "fatal" /\ procLog[2].msg = UnhandledRejectionMsg
    /\ exit = [tag |-> "exited", code |-> 1]

\* C20: a middleware constructed without a logger option has a logger made
\* by createLogger whose level is the level option when one is given and the
\* default level otherwise; no key of the merged logger options is left
\* undefined.
C20_MiddlewareLoggerLevel ==
    (mwLogger # NoHandle /\ Nullish(mwOptions.logger)) =>
        /\ mwLogger.name = "logger"
        /\ mwLogger.mergedOptions.level =
              IF Nullish(mwOptions.level) THEN DEFAULT_LEVEL ELSE mwOptions.level
        /\ \A k \in DOMAIN mwLogger.mergedOptions : ~Nullish(mwLogger.mergedOptions[k])

(***************************************************************************)
(* Properties of requests in flight together                               *)
(***************************************************************************)
\* the entries of request r with the given level and message
RequestEntries(r, level, msg) ==
    {i \in DOMAIN sharedLog :
        /\ sharedLog[i].req = r
        /\ sharedLog[i].entry.level = level
        /\ sharedLog[i].entry.msg = msg}

\* request r has ended: its invocation returned or failed
Ended(r) == reqs[r].pc \in {"returned", "threw"}

\* every request derives its own child logger with its requestId and logs
\* only through it
OwnLoggerPerRequest ==
    \A r \in DOMAIN reqs :
        reqs[r].overlapped =>
            /\ ObjKeys(reqs[r].requestLogger.bindings) = {"requestId"}
            /\ ObjGet(reqs[r].requestLogger.bindings, "requestId") = reqs[r].generated
            /\ reqs[r].ctxLogger = reqs[r].requestLogger
            /\ \A i \in DOMAIN sharedLog :
                  sharedLog[i].req = r => sharedLog[i].entry.logger = reqs[r].requestLogger

\* the closure's logger and merged configuration are what they were at
\* construction
ClosureUnmodified ==
    /\ sharedLogger = constructed.logger
    /\ config = constructed.config

\* a request that was in flight beside another one has exactly one "Incoming
\* request" entry and, once it has ended, exactly one terminal entry
OneIncomingOneTerminalPerRequest ==
    \A r \in DOMAIN reqs :
        reqs[r].overlapped =>
            /\ Cardinality(RequestEntries(r, "info", IncomingRequest)) = 1
            /\ Ended(r) =>
                  Cardinality(RequestEntries(r, "info", RequestCompleted))
                  + Cardinality(RequestEntries(r, "error", RequestFailed)) = 1

\* C21: for every interleaving of two or more requests suspended at their
\* next() on one middleware instance, each request has its own child logger
\* with its own requestId, all its entries are emitted through that logger,
\* the shared logger and merged configuration are never modified, and each
\* request has exactly one "Incoming request" entry and exactly one terminal
\* entry.
C21_ConcurrentRequestsIsolated ==
    /\ OwnLoggerPerRequest
    /\ ClosureUnmodified
    /\ OneIncomingOneTerminalPerRequest

====
